---- MODULE Spec2Model ----
(***************************************************************************)
(* Model of crates/biome_cli/src/reporter/summary.rs: the summary reporter *)
(* of the CLI.  Reporter::write runs report_diagnostics (a loop that       *)
(* tallies the diagnostics per file, then one console log of the tally)    *)
(* and then report_summary (up to three console logs).                     *)
(***************************************************************************)
EXTENDS Integers, Sequences, FiniteSets, TLC

(***************************************************************************)
(* Bounds of the model.                                                    *)
(***************************************************************************)
\* Diagnostics of one payload in the aggregation specification (Spec).
MaxDiags == 2
\* Diagnostics of one payload in the whole-write specification (SpecWrite).
MaxPayload == 1
\* Tally calls in the rendering specification (SpecDisplay).
MaxTally == 3
\* Largest value of a counter of the traversal summary.
MaxCount == 1

(***************************************************************************)
(* Inputs.                                                                 *)
(***************************************************************************)
\* Execution: exactly one of is_check / is_lint / is_format / is_ci holds.
Modes == {"check", "lint", "format", "ci"}

\* Severity is an ordered enum; three levels stand for it.
Severities == {1, 2, 3}

\* File names in the order of BTreeMap<String, _> (String's Ord).
FilesInOrder == <<"a.js", "b.js">>

Files == {FilesInOrder[i] : i \in 1..Len(FilesInOrder)}

\* Category names; "lint/a" and "lint/b" are distinct names of one length.
CategoryNames == {"lint/a", "lint/b", "lint/cd", "format", "parse"}

\* Rule names handed to insert_lint: lengths 6, 6, 7 and 9.
RuleNames == {"lint/a", "lint/b", "lint/cd", "lint/efgh"}

\* location().resource : Option<Resource>.
Resources == {<<"None">>, <<"Memory">>} \cup {<<"File", p>> : p \in Files}

\* category() : Option<&Category> is the empty set (None) or a singleton.
Diagnostics ==
    [resource : Resources,
     category : {{}} \cup {{c} : c \in CategoryNames},
     severity : Severities,
     verbose : BOOLEAN]

\* The loop variable before the first iteration and after the loop.
NoDiagnostic ==
    [resource |-> <<"None">>, category |-> {}, severity |-> 0, verbose |-> FALSE]

VARIABLES
    execution,              \* Execution: the mode of the run
    diagnostic_level,       \* DiagnosticsPayload.diagnostic_level
    verbose,                \* DiagnosticsPayload.verbose
    files_to_diagnostics,   \* FileToDiagnostics: file name -> SummaryDiagnostics
    diagnostic,             \* the loop variable of report_diagnostics
    processed,              \* diagnostics of the payload consumed so far
    insert_lint_calls,      \* history: <<file, rule>> -> number of insert_lint calls
    located,                \* history: file paths of the diagnostics located in a file
    passed,                 \* history: files with a diagnostic at or above the level
    pc,                     \* position in Reporter::write
    logged,                 \* history: the units handed to Console::log, in order
    out,                    \* the writes the console accepted, in order
    sink_failed,            \* the console rejected a write
    summary,                \* TraversalSummary handed to report_summary
    result                  \* what Reporter::write returned

vars ==
    <<execution, diagnostic_level, verbose, files_to_diagnostics, diagnostic,
      processed, insert_lint_calls, located, passed, pc, logged, out,
      sink_failed, summary, result>>

(***************************************************************************)
(* RuleName.                                                               *)
(***************************************************************************)
name_len(r) == Len(r)

\* impl PartialEq for RuleName: by content.
RuleNameEq(a, b) == a = b

\* Faulty variant: the ordering reversed.
RuleNameCmpReversed(a, b) ==
    IF Len(a) < Len(b) THEN "Greater"
    ELSE IF Len(a) > Len(b) THEN "Less"
    ELSE "Equal"

\* impl PartialOrd / Ord for RuleName: by length alone.
RuleNameCmp(a, b) ==
    IF Len(a) < Len(b) THEN "Less"
    ELSE IF Len(a) > Len(b) THEN "Greater"
    ELSE "Equal"

(***************************************************************************)
(* BTreeMap<RuleName, usize>: a sequence of <<key, value>> entries in      *)
(* ascending key order, keys located by the Ord comparison.                *)
(***************************************************************************)
\* get_mut: the index of the entry whose key compares Equal, 0 when none.
BTreeFind(m, k) ==
    IF \E i \in 1..Len(m) : RuleNameCmp(m[i][1], k) = "Equal"
    THEN CHOOSE i \in 1..Len(m) : RuleNameCmp(m[i][1], k) = "Equal"
    ELSE 0

\* insert of a key that no entry compares Equal to.
BTreeInsert(m, k, v) ==
    LET below == Cardinality({i \in 1..Len(m) : RuleNameCmp(m[i][1], k) = "Less"})
    IN SubSeq(m, 1, below) \o <<<<k, v>>>> \o SubSeq(m, below + 1, Len(m))

(***************************************************************************)
(* FileToDiagnostics.  The aggregator state acc carries the map (files)    *)
(* and the history of insert_lint calls (calls).                           *)
(***************************************************************************)
\* SummaryDiagnostics::default()
DefaultSummaryDiagnostics == [lints |-> <<>>, formats |-> 0]

EmptyCalls == [c \in Files \X (CategoryNames \cup RuleNames) |-> 0]

\* Faulty variant: a file is tracked only once something is tallied for it.
track_file_never(acc, file_name) == acc

track_file(acc, file_name) ==
    IF file_name \notin DOMAIN acc.files
    THEN [acc EXCEPT !.files =
            [f \in DOMAIN acc.files \cup {file_name} |->
                IF f = file_name THEN DefaultSummaryDiagnostics ELSE acc.files[f]]]
    ELSE acc

\* get_summary(..).expect("The file to be tracked"): a file that is not
\* tracked gets its entry here so that the operators stay total.
get_summary(acc, file_name) ==
    IF file_name \in DOMAIN acc.files THEN acc.files[file_name]
    ELSE DefaultSummaryDiagnostics

set_summary(acc, file_name, s) ==
    [acc EXCEPT !.files =
        [f \in DOMAIN acc.files \cup {file_name} |->
            IF f = file_name THEN s ELSE acc.files[f]]]

insert_lint(acc, location, rule_name) ==
    LET s == get_summary(acc, location)
        i == BTreeFind(s.lints, rule_name)
        lints == IF i > 0
                 THEN [s.lints EXCEPT ![i] = <<s.lints[i][1], s.lints[i][2] + 1>>]
                 ELSE BTreeInsert(s.lints, rule_name, 1)
        counted == [acc EXCEPT !.calls[<<location, rule_name>>] = @ + 1]
    IN set_summary(counted, location, [s EXCEPT !.lints = lints])

insert_format(acc, location) ==
    LET s == get_summary(acc, location)
    IN set_summary(acc, location, [s EXCEPT !.formats = s.formats + 1])

(***************************************************************************)
(* report_diagnostics: the body of the loop over the payload.              *)
(***************************************************************************)
starts_with(s, prefix) ==
    Len(s) >= Len(prefix) /\ SubSeq(s, 1, Len(prefix)) = prefix

is_check == execution = "check"
is_lint == execution = "lint"
is_format == execution = "format"
is_ci == execution = "ci"

\* Faulty variant: the lint tally is not gated on the mode.
LintModeAny == TRUE

\* lines 86: the modes of the unconditional lint tally.
LintMode == is_check \/ is_lint \/ is_ci

\* Faulty variant: the format tally also runs in lint mode.
FormatModeAny == TRUE

\* line 94: the modes of the format tally.
FormatMode == is_check \/ is_format \/ is_ci

\* Faulty variant: the severity filter is off.
SeverityPassesAlways(d) == TRUE

\* line 71
SeverityPasses(d) == d.severity >= diagnostic_level

\* lines 61-64: Some(p) for Resource::File(p), None otherwise.
Location(d) == IF d.resource[1] = "File" THEN {d.resource[2]} ELSE {}

LintCategory(d) == {c \in d.category : starts_with(c, "lint/")}
FormatCategory(d) == {c \in d.category : starts_with(c, "format")}

\* lines 72-100, for a diagnostic at or above the level, located in file p.
TallyDiagnostic(acc, d, p) ==
    IF d.verbose /\ ~verbose
    THEN acc
    ELSE LET a == IF d.verbose /\ (is_check \/ is_lint) /\ LintCategory(d) # {}
                  THEN insert_lint(acc, p, CHOOSE c \in LintCategory(d) : TRUE)
                  ELSE acc
             b == IF LintMode /\ LintCategory(d) # {}
                  THEN insert_lint(a, p, CHOOSE c \in LintCategory(d) : TRUE)
                  ELSE a
         IN IF FormatMode /\ FormatCategory(d) # {}
            THEN insert_format(b, p)
            ELSE b

\* lines 60-102: one iteration.
VisitDiagnostic(acc, d) ==
    IF Location(d) = {}
    THEN acc
    ELSE LET p == CHOOSE q \in Location(d) : TRUE
             tracked == track_file(acc, p)
         IN IF SeverityPasses(d) THEN TallyDiagnostic(tracked, d, p) ELSE tracked

Visit(d) ==
    /\ pc = "diagnostics"
    /\ LET acc == VisitDiagnostic(
                    [files |-> files_to_diagnostics, calls |-> insert_lint_calls], d)
       IN /\ files_to_diagnostics' = acc.files
          /\ insert_lint_calls' = acc.calls
    /\ diagnostic' = d
    /\ processed' = processed + 1
    /\ located' = located \cup Location(d)
    /\ passed' = passed \cup
                    (IF d.severity >= diagnostic_level THEN Location(d) ELSE {})
    /\ UNCHANGED <<execution, diagnostic_level, verbose, pc, logged, out,
                   sink_failed, summary, result>>

NoSummary == [suggested_fixes_skipped |-> 0, diagnostics_not_printed |-> 0]

Init ==
    /\ execution \in Modes
    /\ diagnostic_level \in Severities
    /\ verbose \in BOOLEAN
    /\ files_to_diagnostics = <<>>
    /\ diagnostic = NoDiagnostic
    /\ processed = 0
    /\ insert_lint_calls = EmptyCalls
    /\ located = {}
    /\ passed = {}
    /\ pc = "diagnostics"
    /\ logged = <<>>
    /\ out = <<>>
    /\ sink_failed = FALSE
    /\ summary = NoSummary
    /\ result = "pending"

\* The loop of report_diagnostics over a payload of at most MaxDiags diagnostics.
Next == \E d \in Diagnostics : processed < MaxDiags /\ Visit(d)

Spec == Init /\ [][Next]_vars

(***************************************************************************)
(* Display.  A write is one write_str / markup text node reaching the      *)
(* Formatter: its text and the expression of the source it renders.        *)
(***************************************************************************)
Write(text, of) == <<[text |-> text, of |-> of]>>

\* impl Display for Padding: one write of " " per unit.
FmtPadding(n) == [i \in 1..n |-> [text |-> " ", of |-> "Padding"]]

\* const TAB: Tab = Tab(Padding(5))
TabWidth == 5

FmtTab == FmtPadding(TabWidth)

\* let padding = 15usize
padding == 15

rule_name_str == "Rule Name"

saturating_sub(a, b) == IF a >= b THEN a - b ELSE 0

\* Faulty variant: every row gets the padding of the first row.
RowPaddingFixed(longest_rule_name, current_name_len) ==
    padding + Len(rule_name_str)

\* lines 219-226: the padding of a row after the first.
RowPadding(longest_rule_name, current_name_len) ==
    saturating_sub(longest_rule_name, current_name_len)
        + padding + Len(rule_name_str)

\* self.0.iter().rev()
Reversed(m) == [i \in 1..Len(m) |-> m[Len(m) + 1 - i]]

\* lines 218-233: the rows after the first.
RECURSIVE FmtRows(_, _)
FmtRows(rows, longest_rule_name) ==
    IF rows = <<>> THEN <<>>
    ELSE FmtTab
         \o Write(rows[1][1], "name")
         \o FmtPadding(RowPadding(longest_rule_name, name_len(rows[1][1])))
         \o Write(ToString(rows[1][2]), "num")
         \o Write("\n", "newline")
         \o FmtRows(Tail(rows), longest_rule_name)

\* impl Display for LintsByCategory
FmtLintsByCategory(m) ==
    IF m = <<>> THEN <<>>
    ELSE LET iter == Reversed(m)
             first_name == iter[1][1]
             first_count == iter[1][2]
             longest_rule_name == name_len(first_name)
         IN FmtTab
            \o Write("Some lint rules were triggered", "literal")
            \o Write("\n\n", "newline")
            \o FmtTab
            \o Write(rule_name_str, "rule_name_str")
            \o FmtPadding(longest_rule_name + padding)
            \o Write("Diagnostics", "diagnostics_str")
            \o Write("\n", "newline")
            \o FmtTab
            \o Write(first_name, "name")
            \o FmtPadding(padding + Len(rule_name_str))
            \o Write(ToString(first_count), "num")
            \o Write("\n", "newline")
            \o FmtRows(Tail(iter), longest_rule_name)

\* impl Display for SummaryDiagnostics
FmtSummaryDiagnostics(s) ==
    (IF s.formats > 0
     THEN FmtTab \o Write("The file isn't formatted.", "literal")
                 \o Write("\n\n", "newline")
     ELSE <<>>)
    \o FmtLintsByCategory(s.lints)

\* lines 149-157: the sections of the files from the i-th on.
RECURSIVE FmtFiles(_, _)
FmtFiles(files, i) ==
    IF i > Len(FilesInOrder) THEN <<>>
    ELSE (IF FilesInOrder[i] \in DOMAIN files
          THEN Write("> ", "literal")
               \o Write(FilesInOrder[i], "file_name")
               \o Write("\n", "newline")
               \o FmtSummaryDiagnostics(files[FilesInOrder[i]])
               \o Write("\n", "newline")
          ELSE <<>>)
         \o FmtFiles(files, i + 1)

\* impl Display for FileToDiagnostics
FmtFileToDiagnostics(files) ==
    Write("Summarised report of diagnostics by file.", "literal")
    \o Write("\n\n", "newline")
    \o FmtFiles(files, 1)

(***************************************************************************)
(* Console::log(markup).  It returns no value (lines 32-37, 104): the      *)
(* writes go to the sink one by one and the first rejected write ends the  *)
(* rendering (the ? of every fmt); the console then either returns to the  *)
(* caller or unwinds, and in neither case hands the failure back.          *)
(***************************************************************************)
ConsoleLog(unit, writes, next) ==
    /\ logged' = Append(logged, unit)
    /\ \E accepted \in 0..Len(writes) :
          /\ out' = out \o SubSeq(writes, 1, accepted)
          /\ IF accepted = Len(writes)
             THEN /\ sink_failed' = sink_failed
                  /\ pc' = next
             ELSE /\ sink_failed' = TRUE
                  /\ pc' \in {next, "unwound"}

\* TraversalSummary: the two counters report_summary reads.
Summaries ==
    [suggested_fixes_skipped : 0..MaxCount, diagnostics_not_printed : 0..MaxCount]

\* lines 104-108: the log of the tally, Ok(()), and write's call of
\* report_summary with self.summary.
LogDiagnostics ==
    /\ pc = "diagnostics"
    /\ ConsoleLog("files_to_diagnostics",
                  FmtFileToDiagnostics(files_to_diagnostics), "summary_skipped")
    /\ diagnostic' = NoDiagnostic
    /\ summary' \in Summaries
    /\ UNCHANGED <<execution, diagnostic_level, verbose, files_to_diagnostics,
                   processed, insert_lint_calls, located, passed, result>>

(***************************************************************************)
(* report_summary.                                                         *)
(***************************************************************************)
\* Faulty variant: the skipped-fixes warning is shown in every mode.
ShowSkippedAnyMode == summary.suggested_fixes_skipped > 0

\* line 32
ShowSkipped == is_check /\ summary.suggested_fixes_skipped > 0

\* line 39
ShowNotPrinted == ~is_ci /\ summary.diagnostics_not_printed > 0

SkippedWrites ==
    Write("Skipped ", "literal")
    \o Write(ToString(summary.suggested_fixes_skipped), "suggested_fixes_skipped")
    \o Write(" suggested fixes.\n", "literal")
    \o Write("If you wish to apply the suggested (unsafe) fixes, use the command ",
             "literal")
    \o Write("biome check --apply-unsafe\n", "literal")

NotPrintedWrites ==
    Write("The number of diagnostics exceeds the number allowed by Biome.\n",
          "literal")
    \o Write("Diagnostics not shown: ", "literal")
    \o Write(ToString(summary.diagnostics_not_printed), "diagnostics_not_printed")
    \o Write(".", "literal")

\* ConsoleTraversalSummary is rendered outside this file: one write stands for it.
TraversalWrites == Write(execution, "ConsoleTraversalSummary")

\* lines 32-37
LogSkipped ==
    /\ pc = "summary_skipped"
    /\ IF ShowSkipped
       THEN ConsoleLog("skipped_fixes", SkippedWrites, "summary_not_printed")
       ELSE /\ pc' = "summary_not_printed"
            /\ UNCHANGED <<logged, out, sink_failed>>
    /\ UNCHANGED <<execution, diagnostic_level, verbose, files_to_diagnostics,
                   diagnostic, processed, insert_lint_calls, located, passed,
                   summary, result>>

\* lines 39-44
LogNotPrinted ==
    /\ pc = "summary_not_printed"
    /\ IF ShowNotPrinted
       THEN ConsoleLog("not_printed", NotPrintedWrites, "summary_traversal")
       ELSE /\ pc' = "summary_traversal"
            /\ UNCHANGED <<logged, out, sink_failed>>
    /\ UNCHANGED <<execution, diagnostic_level, verbose, files_to_diagnostics,
                   diagnostic, processed, insert_lint_calls, located, passed,
                   summary, result>>

\* lines 46-50, and write's Ok(()) (line 20).
LogTraversal ==
    /\ pc = "summary_traversal"
    /\ ConsoleLog("traversal_summary", TraversalWrites, "done")
    /\ result' = IF pc' = "done" THEN "Ok" ELSE result
    /\ UNCHANGED <<execution, diagnostic_level, verbose, files_to_diagnostics,
                   diagnostic, processed, insert_lint_calls, located, passed,
                   summary>>

(***************************************************************************)
(* Reporter::write as a whole, for a payload of at most MaxPayload         *)
(* diagnostics.                                                            *)
(***************************************************************************)
NextWrite ==
    \/ \E d \in Diagnostics : processed < MaxPayload /\ Visit(d)
    \/ LogDiagnostics
    \/ LogSkipped
    \/ LogNotPrinted
    \/ LogTraversal

SpecWrite == Init /\ [][NextWrite]_vars

(***************************************************************************)
(* report_summary alone, entered with any execution and summary.           *)
(***************************************************************************)
InitSummary ==
    /\ execution \in Modes
    /\ diagnostic_level \in Severities
    /\ verbose \in BOOLEAN
    /\ files_to_diagnostics = <<>>
    /\ diagnostic = NoDiagnostic
    /\ processed = 0
    /\ insert_lint_calls = EmptyCalls
    /\ located = {}
    /\ passed = {}
    /\ pc = "summary_skipped"
    /\ logged = <<>>
    /\ out = <<>>
    /\ sink_failed = FALSE
    /\ summary \in Summaries
    /\ result = "pending"

NextSummary == LogSkipped \/ LogNotPrinted \/ LogTraversal

SpecSummary == InitSummary /\ [][NextSummary]_vars

(***************************************************************************)
(* The tally and its rendering alone: at most MaxTally calls of the        *)
(* FileToDiagnostics operations, then the Display of the map on a sink     *)
(* that accepts every write.                                               *)
(***************************************************************************)
TallyLint(f, r) ==
    /\ pc = "diagnostics"
    /\ processed < MaxTally
    /\ LET acc == insert_lint(
                    track_file([files |-> files_to_diagnostics,
                                calls |-> insert_lint_calls], f), f, r)
       IN /\ files_to_diagnostics' = acc.files
          /\ insert_lint_calls' = acc.calls
    /\ processed' = processed + 1
    /\ UNCHANGED <<execution, diagnostic_level, verbose, diagnostic, located,
                   passed, pc, logged, out, sink_failed, summary, result>>

TallyFormat(f) ==
    /\ pc = "diagnostics"
    /\ processed < MaxTally
    /\ LET acc == insert_format(
                    track_file([files |-> files_to_diagnostics,
                                calls |-> insert_lint_calls], f), f)
       IN /\ files_to_diagnostics' = acc.files
          /\ insert_lint_calls' = acc.calls
    /\ processed' = processed + 1
    /\ UNCHANGED <<execution, diagnostic_level, verbose, diagnostic, located,
                   passed, pc, logged, out, sink_failed, summary, result>>

DisplayReport ==
    /\ pc = "diagnostics"
    /\ out' = FmtFileToDiagnostics(files_to_diagnostics)
    /\ logged' = Append(logged, "files_to_diagnostics")
    /\ pc' = "displayed"
    /\ UNCHANGED <<execution, diagnostic_level, verbose, files_to_diagnostics,
                   diagnostic, processed, insert_lint_calls, located, passed,
                   sink_failed, summary, result>>

NextDisplay ==
    \/ \E f \in Files : \E r \in RuleNames : TallyLint(f, r)
    \/ \E f \in Files : TallyFormat(f)
    \/ DisplayReport

SpecDisplay == Init /\ [][NextDisplay]_vars

(***************************************************************************)
(* Readings of the tally used by the properties.                           *)
(***************************************************************************)
LintsOf(files, f) == IF f \in DOMAIN files THEN files[f].lints ELSE <<>>
FormatsOf(files, f) == IF f \in DOMAIN files THEN files[f].formats ELSE 0

\* The count stored under exactly the name r in file f, 0 when r is no key.
StoredCount(files, f, r) ==
    LET m == LintsOf(files, f)
        at == {i \in 1..Len(m) : m[i][1] = r}
    IN IF at = {} THEN 0 ELSE m[CHOOSE i \in at : TRUE][2]

RECURSIVE SumCounts(_)
SumCounts(m) == IF m = <<>> THEN 0 ELSE m[1][2] + SumCounts(Tail(m))

\* The sum of the counts of the rule tally of file f.
LintTotal(files, f) == SumCounts(LintsOf(files, f))

\* A step of the loop: the diagnostic it visited is diagnostic'.
Visited == pc = "diagnostics" /\ processed' = processed + 1

\* The visited diagnostic is located in file f.
VisitedIn(f) == Visited /\ Location(diagnostic') = {f}

\* The diagnostic is dropped as verbose-only: tagged verbose, verbose not requested.
SkippedVerbose(d) == d.verbose /\ ~verbose

AtOrAboveLevel(d) == d.severity >= diagnostic_level

(***************************************************************************)
(* C1: for every file and every rule name in its tally, the stored count   *)
(* is the number of insert_lint calls for that file with exactly that      *)
(* name, and every name insert_lint was called with is a key of its own.   *)
(***************************************************************************)
C1_CountsPerExactName ==
    \A f \in Files : \A r \in CategoryNames :
        StoredCount(files_to_diagnostics, f, r) = insert_lint_calls[<<f, r>>]

(***************************************************************************)
(* C2: one diagnostic never raises a stored rule count by more than one;   *)
(* a verbose-only lint diagnostic at or above the level, with verbose      *)
(* output requested and mode check or lint, raises the count of its rule   *)
(* in its file by exactly one.                                             *)
(***************************************************************************)
C2_NoDoubleCount ==
    [][Visited =>
        /\ \A f \in Files : \A r \in CategoryNames :
              StoredCount(files_to_diagnostics', f, r)
                 <= StoredCount(files_to_diagnostics, f, r) + 1
        /\ \A f \in Files : \A r \in CategoryNames :
              (/\ VisitedIn(f)
               /\ diagnostic'.category = {r}
               /\ starts_with(r, "lint/")
               /\ diagnostic'.verbose /\ verbose
               /\ AtOrAboveLevel(diagnostic')
               /\ execution \in {"check", "lint"})
              => StoredCount(files_to_diagnostics', f, r)
                    = StoredCount(files_to_diagnostics, f, r) + 1]_vars

(***************************************************************************)
(* C3: the keys of the file-to-diagnostics map are exactly the file paths  *)
(* of the diagnostics located in a file; a file all of whose diagnostics   *)
(* were below the level has an entry with an empty tally and formats = 0.  *)
(***************************************************************************)
C3_KeysAreLocatedFiles ==
    /\ DOMAIN files_to_diagnostics = located
    /\ \A f \in located \ passed :
          files_to_diagnostics[f] = [lints |-> <<>>, formats |-> 0]

\* A diagnostic without a file location was visited after one below the level.
C3_Witness ==
    /\ processed = 2
    /\ Location(diagnostic) = {}
    /\ located = {"a.js"}
    /\ passed = {}
    /\ DOMAIN files_to_diagnostics = {"a.js"}

C5_FormatGating ==
    [][Visited =>
        /\ \A f \in Files :
              (/\ VisitedIn(f)
               /\ \E c \in diagnostic'.category : starts_with(c, "format")
               /\ AtOrAboveLevel(diagnostic')
               /\ ~SkippedVerbose(diagnostic')
               /\ execution \in {"check", "format", "ci"})
              => /\ FormatsOf(files_to_diagnostics', f)
                       = FormatsOf(files_to_diagnostics, f) + 1
                 /\ LintsOf(files_to_diagnostics', f)
                       = LintsOf(files_to_diagnostics, f)
        /\ execution = "lint"
              => \A f \in Files : FormatsOf(files_to_diagnostics', f) = 0]_vars

\* The second format diagnostic of a file was counted.
C5_Witness ==
    /\ execution = "format"
    /\ diagnostic.resource = <<"File", "b.js">>
    /\ diagnostic.category = {"format"}
    /\ AtOrAboveLevel(diagnostic)
    /\ ~SkippedVerbose(diagnostic)
    /\ FormatsOf(files_to_diagnostics, "b.js") = 2

(***************************************************************************)
(* C10: a diagnostic below the level, or a verbose-only diagnostic while   *)
(* verbose output was not requested, leaves every rule count and every     *)
(* format count of every file unchanged; all it may do is create the       *)
(* empty entry of its own file.                                            *)
(***************************************************************************)
C10_FilteredLeavesTallies ==
    [][(Visited /\ (~AtOrAboveLevel(diagnostic') \/ SkippedVerbose(diagnostic')))
        => /\ \A f \in DOMAIN files_to_diagnostics :
                 /\ f \in DOMAIN files_to_diagnostics'
                 /\ files_to_diagnostics'[f] = files_to_diagnostics[f]
           /\ \A f \in DOMAIN files_to_diagnostics' \ DOMAIN files_to_diagnostics :
                 /\ Location(diagnostic') = {f}
                 /\ files_to_diagnostics'[f] = [lints |-> <<>>, formats |-> 0]
           /\ insert_lint_calls' = insert_lint_calls]_vars

\* A diagnostic below the level was visited for a file that has a tally.
C10_Witness ==
    /\ processed = 2
    /\ diagnostic.resource = <<"File", "a.js">>
    /\ diagnostic.category = {"lint/a"}
    /\ ~AtOrAboveLevel(diagnostic)
    /\ StoredCount(files_to_diagnostics, "a.js", "lint/a") = 1
    /\ DOMAIN files_to_diagnostics = {"a.js"}

(***************************************************************************)
(* Readings of the rendered report used by the properties.                 *)
(***************************************************************************)
MaxOf(S) == CHOOSE x \in S : \A y \in S : y <= x
MinOf(S) == CHOOSE x \in S : \A y \in S : x <= y

\* The file whose section the i-th write belongs to ("" before the first).
FileAt(i) ==
    LET headers == {j \in 1..i : out[j].of = "file_name"}
    IN IF headers = {} THEN "" ELSE out[MaxOf(headers)].text

\* The writes of the rule names of the table of file f, in output order.
NameWrites(f) == {i \in 1..Len(out) : out[i].of = "name" /\ FileAt(i) = f}

\* The writes of the occurrence counts of the table of file f.
CountWrites(f) == {i \in 1..Len(out) : out[i].of = "num" /\ FileAt(i) = f}

RECURSIVE TextWidth(_, _)
TextWidth(from, to) ==
    IF from > to THEN 0 ELSE Len(out[from].text) + TextWidth(from + 1, to)

\* The character offset in its line at which the i-th write starts.
Column(i) ==
    LET breaks == {j \in 1..(i - 1) : out[j].of = "newline"}
    IN TextWidth((IF breaks = {} THEN 0 ELSE MaxOf(breaks)) + 1, i - 1)

KeysOf(m) == {m[k][1] : k \in 1..Len(m)}

(***************************************************************************)
(* C6: for every file with a non-empty rule tally the table has one row    *)
(* per rule of the tally, a rule with a longer name is emitted before a    *)
(* rule with a shorter name, and the first row has the greatest length.    *)
(***************************************************************************)
C6_RowsDescendingByLength ==
    pc = "displayed" =>
        \A f \in DOMAIN files_to_diagnostics :
            LET lints == files_to_diagnostics[f].lints
                rows == NameWrites(f)
            IN /\ Cardinality(rows) = Len(lints)
               /\ {out[i].text : i \in rows} = KeysOf(lints)
               /\ \A i, j \in rows :
                     Len(out[i].text) > Len(out[j].text) => i < j
               /\ rows # {} =>
                     \A k \in KeysOf(lints) :
                        Len(out[MinOf(rows)].text) >= Len(k)

\* A table of three rules was rendered for the second file.
C6_Witness ==
    /\ pc = "displayed"
    /\ Len(LintsOf(files_to_diagnostics, "b.js")) = 3
    /\ Cardinality(NameWrites("b.js")) = 3

(***************************************************************************)
(* C7: in the table of a file the occurrence count starts at the same      *)
(* character offset on every row.                                          *)
(***************************************************************************)
C7_CountColumnAligned ==
    pc = "displayed" =>
        \A f \in DOMAIN files_to_diagnostics :
            /\ Cardinality(CountWrites(f)) = Len(files_to_diagnostics[f].lints)
            /\ \A i, j \in CountWrites(f) : Column(i) = Column(j)

\* Rows of three different name lengths were rendered for one file.
C7_Witness ==
    /\ pc = "displayed"
    /\ {Len(out[i].text) : i \in NameWrites("a.js")} = {6, 7, 9}
    /\ Cardinality({Column(i) : i \in CountWrites("a.js")}) = 1

(***************************************************************************)
(* C8: report_summary logs the skipped-fixes warning iff the mode is check *)
(* and the skipped count > 0, then the not-printed warning iff the mode is *)
(* not ci and the not-printed count > 0, then always the traversal         *)
(* summary, in this order and nothing else.                                *)
(***************************************************************************)
ExpectedSummaryUnits ==
    (IF execution = "check" /\ summary.suggested_fixes_skipped > 0
     THEN <<"skipped_fixes">> ELSE <<>>)
    \o (IF execution # "ci" /\ summary.diagnostics_not_printed > 0
        THEN <<"not_printed">> ELSE <<>>)
    \o <<"traversal_summary">>

C8_SummaryUnits ==
    /\ pc = "done" => logged = ExpectedSummaryUnits
    /\ /\ Len(logged) <= Len(ExpectedSummaryUnits)
       /\ logged = SubSeq(ExpectedSummaryUnits, 1, Len(logged))

\* In check mode, with both counters positive, all three units were logged.
C8_Witness ==
    /\ pc = "done"
    /\ execution = "check"
    /\ summary.suggested_fixes_skipped > 0
    /\ summary.diagnostics_not_printed > 0
    /\ logged = <<"skipped_fixes", "not_printed", "traversal_summary">>

(***************************************************************************)
(* C9: once the sink has rejected a write, a report-writing call that      *)
(* comes back to its caller has returned an I/O failure: write is over     *)
(* with the result Err, and report_summary does not run after it.          *)
(***************************************************************************)
C9_SinkFailureSurfaced ==
    (sink_failed /\ pc # "unwound") => (result = "Err" /\ pc = "done")

====
